---- MODULE Spec2Model ----
(***************************************************************************)
(* Model of PDFMergerApp.merge_pdfs and _add_bookmarks_recursively of      *)
(* src/source/pdf_merger.py: the per-file loop that adds one top-level     *)
(* bookmark per file, copies the file's own outline beneath it with the    *)
(* page numbers shifted by the running page offset, and appends the pages. *)
(*                                                                         *)
(* Strings that the code takes apart (file names, titles) are sequences of *)
(* one-character strings.  Python's None is the value None below.          *)
(***************************************************************************)
EXTENDS Integers, Sequences, FiniteSets, TLC

\* ---------------------------------------------------------------- bounds
\* Files in pdf_files_data when the merge starts.
MaxSources == 2
\* Pages of one source file.
MaxPages == 2
\* Outline nodes of all the sources of one merge together.
MaxNodes == 3
\* Nodes of one outline that lack a title or a page: title None, empty or
\* blank, or a destination for which the resolver answers -1 or None or
\* raises.
MaxDefects == 1

\* ------------------------------------------------------------ basic values
\* Python's None, as a value no title (a sequence of characters) equals.
None == << "<None>" >>

\* The names of the files of the list, by position (pdf_files_data[k][1]).
FileNames ==
    << << "a", ".", "b", ".", "p", "d", "f" >>,
       << ".", "c", ".", "p", "d", "f" >>,
       << "d" >>,
       << "D" >> >>

\* What os.stat and PdfReader answer for the files: size, modification
\* time and page count (0: the pages could not be read), with equal values
\* among them.
FileSizes == << 2, 1, 2, 1 >>
FileModified == << 1, 1, 2, 2 >>
FilePages == << 1, 2, 0, 2 >>

\* The tuple the list holds for the file of path k:
\* (full_path, name, size_kb, modified, pages).
FileAt(k) ==
    [path |-> k,
     name |-> FileNames[((k - 1) % Len(FileNames)) + 1],
     size |-> FileSizes[((k - 1) % Len(FileSizes)) + 1],
     modified |-> FileModified[((k - 1) % Len(FileModified)) + 1],
     pages |-> FilePages[((k - 1) % Len(FilePages)) + 1]]

\* Outcomes of reader.get_destination_page_number(item): a page index, the
\* not-found marker -1, None, or an exception.
PageRes(n) == [k |-> "page", n |-> n]
NoneRes == [k |-> "none", n |-> 0]
RaiseRes == [k |-> "raise", n |-> 0]
NotFound == PageRes(0 - 1)

TitleCh == << "C", "h" >>

\* A title that is the empty string, and one that is a single blank.
TitleEmpty == << >>
TitleBlank == << " " >>

\* What one outline node can look like to the code: its title and what the
\* destination resolver answers for it.
NodeKinds(numPages) ==
    { [title |-> TitleCh, dest |-> PageRes(p)] : p \in 0 .. (numPages - 1) }
    \cup { [title |-> TitleCh, dest |-> NotFound],
           [title |-> None, dest |-> PageRes(0)],
           [title |-> TitleEmpty, dest |-> PageRes(0)],
           [title |-> TitleBlank, dest |-> PageRes(0)],
           [title |-> TitleCh, dest |-> NoneRes],
           [title |-> TitleCh, dest |-> RaiseRes] }

\* ------------------------------------------------------- outline forests
\* An outline item as the code sees it: either a plain list of items
\* (isList) or an OutlineItem with title, destination and, when the object
\* has the attribute, children.  id is the node's position in the source's
\* outline forest (<<2, 1>>: first child of the second root); it is carried
\* along to tell which source node an emitted entry was copied from.
ListItem(items) ==
    [isList |-> TRUE, items |-> items, title |-> None, dest |-> NoneRes,
     hasChildren |-> FALSE, children |-> << >>, id |-> << >>]

NodeItem(id, kind, hasChildren, children) ==
    [isList |-> FALSE, items |-> << >>, title |-> kind.title, dest |-> kind.dest,
     hasChildren |-> hasChildren, children |-> children, id |-> id]

RECURSIVE Trees(_, _, _)
RECURSIVE Forests(_, _, _, _)
\* The trees of exactly n nodes whose root has the id `id`, as nodes that
\* carry their children (the children relation).
Trees(n, id, numPages) ==
    { NodeItem(id, kind, TRUE, kids) :
        kind \in NodeKinds(numPages), kids \in Forests(n - 1, id, 1, numPages) }

\* The ordered forests of exactly n nodes under the parent id `pid`, the
\* first root being child number `first`.
Forests(n, pid, first, numPages) ==
    IF n = 0 THEN { << >> }
    ELSE UNION { { << t >> \o rest :
                     t \in Trees(k, pid \o << first >>, numPages),
                     rest \in Forests(n - k, pid, first + 1, numPages) } :
                 k \in 1 .. n }

RECURSIVE NestedLists(_)
\* The same forest in the nested-list shape: each node without children
\* attribute, followed by a list holding its children when it has any.
NestedLists(forest) ==
    IF forest = << >> THEN << >>
    ELSE LET t == Head(forest)
             node == NodeItem(t.id, [title |-> t.title, dest |-> t.dest], FALSE, << >>)
         IN  (IF t.children = << >> THEN << node >>
              ELSE << node, ListItem(NestedLists(t.children)) >>)
             \o NestedLists(Tail(forest))

\* The node lacks a proper title or a page of its file.
IsDefect(node) ==
    \/ node.title \in { None, TitleEmpty, TitleBlank }
    \/ node.dest.k # "page"
    \/ node.dest.n < 0

\* The number of such nodes in a forest given with the children relation.
RECURSIVE Defects(_)
Defects(forest) ==
    IF forest = << >> THEN 0
    ELSE (IF IsDefect(Head(forest)) THEN 1 ELSE 0)
         + Defects(Head(forest).children) + Defects(Tail(forest))

\* The number of nodes of a forest given with the children relation.
RECURSIVE NodeCount(_)
NodeCount(forest) ==
    IF forest = << >> THEN 0
    ELSE 1 + NodeCount(Head(forest).children) + NodeCount(Tail(forest))

\* --------------------------------------------------------- the environment
\* What the file system and the PDF library answer for one file of the
\* list: whether PdfReader opens it, its page count, whether reading
\* reader.outline raises, the outline (forest: the outline as a forest;
\* outline: the same outline in the shape the library hands to the code),
\* and whether merger.append succeeds.
FileEnv(opens, pages, outlineRaises, forest, outline, appendOk) ==
    [opens |-> opens, num_pages |-> pages, outline_raises |-> outlineRaises,
     forest |-> forest, outline |-> outline, append_ok |-> appendOk]

FileEnvs(budget) ==
    { FileEnv(FALSE, 0, FALSE, << >>, << >>, FALSE),
      FileEnv(TRUE, 0, FALSE, << >>, << >>, FALSE) }
    \cup { FileEnv(TRUE, p, TRUE, << >>, << >>, a) :
             p \in 1 .. MaxPages, a \in BOOLEAN }
    \cup UNION { UNION { UNION { { FileEnv(TRUE, p, FALSE, f, o, a) :
                                     o \in { f, NestedLists(f) }, a \in BOOLEAN } :
                                 f \in { g \in Forests(n, << >>, 1, p) :
                                            Defects(g) <= MaxDefects } } :
                         n \in 0 .. budget } :
                 p \in 1 .. MaxPages }

\* ------------------------------------------------------------------ state
VARIABLES
    pdf_files_data,       \* the file list, in merge order
    pc,                   \* "idle", "loop", "done" or "returned"
    pos,                  \* 1-based position of the loop in pdf_files_data
    merger_pages,         \* merger.pages: one <<file position, page>> per page
    merger_outline,       \* the outline items added to the merger, in order
    success_count,
    error_files,
    current_page_offset,
    output_file,          \* the file at output_path
    merger_closed,
    status,               \* what the status bar reports at the end
    log,                  \* per processed file: its environment and what was done
    sort_column,          \* _sort_column: -1 when no sort is active
    sort_order,           \* _sort_order
    table_rows,           \* pdf_table.rowCount()
    last_op               \* the last list handler that ran, with its arguments

mergeVars ==
    << pc, pos, merger_pages, merger_outline, success_count, error_files,
       current_page_offset, output_file, merger_closed, status, log >>

listVars ==
    << sort_column, sort_order, table_rows, last_op >>

vars ==
    << pdf_files_data, pc, pos, merger_pages, merger_outline, success_count,
       error_files, current_page_offset, output_file, merger_closed, status, log,
       sort_column, sort_order, table_rows, last_op >>

\* ------------------------------------------------------ library functions
\* os.path.splitext(name)[0] for a name without directory part: the name up
\* to its last dot, unless only dots precede that dot.
LastDot(name) ==
    LET dots == { k \in 1 .. Len(name) : name[k] = "." }
    IN  IF dots = { } THEN 0 ELSE CHOOSE k \in dots : \A j \in dots : j <= k

SplitextRoot(name) ==
    LET d == LastDot(name)
    IN  IF d > 0 /\ (\E k \in 1 .. (d - 1) : name[k] # ".")
        THEN SubSeq(name, 1, d - 1)
        ELSE name

\* merger.add_outline_item(title, page, parent): the new item is the last
\* one of the merger's outline; parent 0 is the top level.  src and node
\* record the file and the source node the item was made for.
AddOutlineItem(out, title, page, parent, src, node) ==
    Append(out, [title |-> title, page |-> page, parent |-> parent,
                 src |-> src, node |-> node])

\* --------------------------------------------- _add_bookmarks_recursively
\* A variant that forgets the page offset.
MergedPageNum_NoShift(original_page_num, page_offset) ==
    original_page_num

MergedPageNum(original_page_num, page_offset) ==
    original_page_num + page_offset

\* Line 654: the item is copied when title and page number are not None.
HasTitleAndPage(title, res) ==
    title # None /\ res.k # "none"

\* Line 668: hasattr(item, "children") and item.children.
HasChildren(item) ==
    item.hasChildren /\ item.children # << >>

\* Line 643: the parent under which the items of a nested list are added.
NestedListParent(parent_bookmark) ==
    parent_bookmark

\* A variant that walks the list from its end.
ItemAt_Reversed(outline_items, k) ==
    outline_items[Len(outline_items) + 1 - k]

\* Line 638: the loop takes the items in list order.
ItemAt(outline_items, k) ==
    outline_items[k]

\* A variant with the try/except around the loop: a skipped item ends it.
ContinueAt_StopAfterSkip(outline_items, k, skipped) ==
    IF skipped THEN Len(outline_items) + 1 ELSE k + 1

\* Lines 648-693: the try/except lies inside the loop, so whatever happened
\* to item k (copied, skipped, or an exception caught) the loop goes on with
\* item k + 1.
ContinueAt(outline_items, k, skipped) ==
    k + 1

RECURSIVE AddBookmarksRecursively(_, _, _, _, _, _)
\* The merger's outline after the loop over outline_items[k ..] (line 638).
AddBookmarksRecursively(out, parent_bookmark, outline_items, k, page_offset, src) ==
    IF k > Len(outline_items) THEN out
    ELSE
      LET item == ItemAt(outline_items, k)
          copied == (~item.isList) /\ item.dest.k # "raise"
                    /\ HasTitleAndPage(item.title, item.dest)
          after ==
            IF item.isList
            THEN AddBookmarksRecursively(
                     out, NestedListParent(parent_bookmark), item.items, 1,
                     page_offset, src)
            ELSE IF item.dest.k = "raise"
            THEN out
            ELSE IF HasTitleAndPage(item.title, item.dest)
            THEN LET added == AddOutlineItem(
                                  out, item.title,
                                  MergedPageNum(item.dest.n, page_offset),
                                  parent_bookmark, src, item.id)
                 IN  IF HasChildren(item)
                     THEN AddBookmarksRecursively(
                              added, Len(added), item.children, 1, page_offset, src)
                     ELSE added
            ELSE out
      IN  AddBookmarksRecursively(
              after, parent_bookmark, outline_items,
              ContinueAt(outline_items, k, (~item.isList) /\ ~copied),
              page_offset, src)

\* ------------------------------------------------------------- merge_pdfs
\* Outline nodes of the files processed so far.
RECURSIVE NodesUsed(_)
NodesUsed(l) ==
    IF l = << >> THEN 0 ELSE NodeCount(Head(l).env.forest) + NodesUsed(Tail(l))

\* A variant that loses the last page of every file.
SourcePages_DropLast(src, n) ==
    [p \in 1 .. (n - 1) |-> << src, p - 1 >>]

\* The pages merger.append adds for the file at position src.
SourcePages(src, n) ==
    [p \in 1 .. n |-> << src, p - 1 >>]

\* A variant that passes the 1-based page number of the file's first page.
AddFileBookmark_OneBased(out, name, page_offset, src) ==
    AddOutlineItem(out, SplitextRoot(name), page_offset + 1, 0, src, << >>)

\* Lines 760-771: the top-level bookmark of the file, at the page where the
\* file begins in the merged document.
AddFileBookmark(out, name, page_offset, src) ==
    AddOutlineItem(out, SplitextRoot(name), page_offset, 0, src, << >>)

\* Lines 773-795: the file's own outline, copied beneath the file's
\* bookmark (the last item of out); nothing when reader.outline raises or
\* is empty.
AddSourceOutline(out, env, page_offset, src) ==
    IF env.outline_raises \/ env.outline = << >>
    THEN out
    ELSE AddBookmarksRecursively(out, Len(out), env.outline, 1, page_offset, src)

\* A variant that advances the offset also for a file whose append failed.
PageOffsetAfter_AlwaysAdvance(merged, appended, page_offset) ==
    Len(appended)

\* Lines 799-819: the offset for the next file is the merger's page count
\* after a successful append (line 807); it stays as it is when the file
\* was skipped or failed.
PageOffsetAfter(merged, appended, page_offset) ==
    IF merged THEN Len(appended) ELSE page_offset

\* A variant without the check for files without pages.
NoPages_Never(env) ==
    FALSE

\* Line 755: the file has no pages and is skipped.
NoPages(env) ==
    env.num_pages = 0

\* A variant in which an unreadable outline fails the whole file.
FileMerged_OutlineFatal(env) ==
    env.opens /\ ~NoPages(env) /\ ~env.outline_raises /\ env.append_ok

\* Lines 746-809: the file counts as merged when the reader opened, it has
\* pages and merger.append went through; an error of the outline is caught
\* at line 790 and does not fail the file.
FileMerged(env) ==
    env.opens /\ ~NoPages(env) /\ env.append_ok

\* A variant that does not record the files skipped for having no pages.
RecordError_NotSkipped(errors, name, env) ==
    IF ~env.opens THEN Append(errors, << name, "error" >>)
    ELSE IF NoPages(env) THEN errors
    ELSE IF ~env.append_ok THEN Append(errors, << name, "error" >>)
    ELSE errors

\* Lines 757 and 809-814: error_files after the pass: the file is recorded
\* when it had no pages or when an exception left the try block.
RecordError(errors, name, env) ==
    IF ~env.opens THEN Append(errors, << name, "error" >>)
    ELSE IF NoPages(env) THEN Append(errors, << name, "no pages" >>)
    ELSE IF ~env.append_ok THEN Append(errors, << name, "error" >>)
    ELSE errors

\* A variant that closes the merger only after a successful write.
MergerClosedAfter_OnlyOnSuccess(written, w) ==
    written /\ w = "ok"

\* Lines 866-873: the finally clause closes the merger whatever happened
\* in the try block (written: the write was attempted; w: how it went).
MergerClosedAfter(written, w) ==
    TRUE

\* Qt.SortOrder.
AscendingOrder == "AscendingOrder"
DescendingOrder == "DescendingOrder"

\* No list handler has run yet.
NoOp ==
    [op |-> "none", accepted |-> FALSE, before |-> << >>,
     start |-> 0, end |-> 0, row |-> 0, in_list |-> 0, in_selection |-> 0]

\* Before merge_pdfs is called: no merger, nothing merged.
MergeIdle ==
    /\ pc = "idle"
    /\ pos = 1
    /\ merger_pages = << >>
    /\ merger_outline = << >>
    /\ success_count = 0
    /\ error_files = << >>
    /\ current_page_offset = 0
    /\ output_file = "absent"
    /\ merger_closed = FALSE
    /\ status = "none"
    /\ log = << >>

\* The moment the merge button is pressed, with a list the user has put
\* together, shown unsorted.
Init ==
    /\ pdf_files_data \in { [k \in 1 .. n |-> FileAt(k)] : n \in 0 .. MaxSources }
    /\ MergeIdle
    /\ sort_column = 0 - 1
    /\ sort_order = AscendingOrder
    /\ table_rows = Len(pdf_files_data)
    /\ last_op = NoOp

\* Lines 697-734: nothing to merge, or the merger is created and the loop
\* starts with its counters at zero.
StartMerge ==
    /\ pc = "idle"
    /\ pc' = IF pdf_files_data = << >> THEN "returned" ELSE "loop"
    /\ status' = IF pdf_files_data = << >> THEN "no_pdfs" ELSE "merging"
    /\ success_count' = 0
    /\ error_files' = << >>
    /\ current_page_offset' = 0
    /\ UNCHANGED << pdf_files_data, pos, merger_pages, merger_outline,
                    output_file, merger_closed, log >>
    /\ UNCHANGED listVars

\* Lines 741-819: one pass of the loop, for the file at position pos.
ProcessFile ==
    /\ pc = "loop"
    /\ pos <= Len(pdf_files_data)
    /\ \E env \in FileEnvs(MaxNodes - NodesUsed(log)) :
        LET name == pdf_files_data[pos].name
            withFile == AddFileBookmark(merger_outline, name, current_page_offset, pos)
            withOutline == AddSourceOutline(withFile, env, current_page_offset, pos)
            appended == merger_pages \o SourcePages(pos, env.num_pages)
            reached == env.opens /\ ~NoPages(env)
            merged == FileMerged(env)
        IN  /\ merger_outline' = IF reached THEN withOutline ELSE merger_outline
            /\ merger_pages' = IF merged THEN appended ELSE merger_pages
            /\ success_count' = IF merged THEN success_count + 1 ELSE success_count
            /\ current_page_offset' =
                   PageOffsetAfter(merged, appended, current_page_offset)
            /\ error_files' = RecordError(error_files, name, env)
            /\ log' = Append(log, [env |-> env,
                                   offset |-> current_page_offset,
                                   first |-> Len(merger_outline) + 1,
                                   last |-> Len(merger_outline'),
                                   merged |-> merged])
    /\ pos' = pos + 1
    /\ UNCHANGED << pdf_files_data, pc, output_file, merger_closed, status >>
    /\ UNCHANGED listVars

\* Lines 823-873: after the loop the merged document is written when a file
\* was merged, and the merger is closed.  open(output_path, "wb") may fail
\* and leave the file as it was; merger.write may fail after the file was
\* opened for writing.
Finish ==
    /\ pc = "loop"
    /\ pos > Len(pdf_files_data)
    /\ \E w \in { "ok", "open_fails", "write_fails" } :
        /\ output_file' =
               IF success_count = 0 \/ w = "open_fails" THEN output_file
               ELSE IF w = "ok" THEN "complete" ELSE "partial"
        /\ status' =
               IF success_count > 0
               THEN (IF w = "ok" THEN "merged" ELSE "critical_error")
               ELSE IF error_files # << >> THEN "merge_failed" ELSE "no_valid"
        /\ merger_closed' = MergerClosedAfter(success_count > 0, w)
    /\ pc' = "done"
    /\ UNCHANGED << pdf_files_data, pos, merger_pages, merger_outline,
                    success_count, error_files, current_page_offset, log >>
    /\ UNCHANGED listVars

Next ==
    \/ StartMerge
    \/ ProcessFile
    \/ Finish

Spec == Init /\ [][Next]_vars

\* ============================================================ the file list
\* The handlers that change pdf_files_data before a merge: add_pdfs,
\* remove_selected_pdfs, on_rows_moved and handle_header_click.

\* The number of files the user can pick among, and the largest selection
\* of one file dialog.
MaxFiles == 4
MaxSelect == 3

\* Line 94: the table has four columns (name, size, modified, pages).
ColumnCount == 4

\* ord(c) for the characters of the file names.
Code(c) ==
    CASE c = "." -> 46
      [] c = "D" -> 68
      [] c = "a" -> 97
      [] c = "b" -> 98
      [] c = "c" -> 99
      [] c = "d" -> 100
      [] c = "f" -> 102
      [] c = "p" -> 112

\* str.lower() on these names.
Lower(name) ==
    [i \in 1 .. Len(name) |-> IF name[i] = "D" THEN "d" ELSE name[i]]

\* s < t for strings: at the first position where they differ s has the
\* smaller character, or s ends there.
StrLess(s, t) ==
    \E i \in 1 .. Len(t) :
        /\ i <= Len(s) + 1
        /\ SubSeq(s, 1, i - 1) = SubSeq(t, 1, i - 1)
        /\ (i = Len(s) + 1 \/ Code(s[i]) < Code(t[i]))

\* Lines 585-592: key(a) < key(b) for the key of the column.
KeyLess(a, b, column) ==
    CASE column = 0 -> StrLess(Lower(a.name), Lower(b.name))
      [] column = 1 -> a.size < b.size
      [] column = 2 -> a.modified < b.modified
      [] column = 3 -> a.pages < b.pages

\* a has to come before b in the order asked for.
Before(a, b, column, order) ==
    IF order = DescendingOrder THEN KeyLess(b, a, column) ELSE KeyLess(a, b, column)

\* x put into a sorted list behind the entries it does not have to precede.
InsertStable(sorted, x, column, order) ==
    LET later == { i \in 1 .. Len(sorted) : Before(x, sorted[i], column, order) }
        at == IF later = { } THEN Len(sorted) + 1
              ELSE CHOOSE i \in later : \A j \in later : i <= j
    IN  SubSeq(sorted, 1, at - 1) \o << x >> \o SubSeq(sorted, at, Len(sorted))

\* list.sort(key=..., reverse=...): stable in both directions; entries with
\* equal keys keep their order.
RECURSIVE SortedStable(_, _, _)
SortedStable(data, column, order) ==
    IF data = << >> THEN << >>
    ELSE InsertStable(SortedStable(SubSeq(data, 1, Len(data) - 1), column, order),
                      data[Len(data)], column, order)

\* A variant that forgets reverse=reverse_sort.
SortData_AlwaysAscending(data, column, order) ==
    IF column \in 0 .. 3 THEN SortedStable(data, column, AscendingOrder) ELSE data

\* Lines 579-606: sort_data; a column without key leaves the list alone.
SortData(data, column, order) ==
    IF column \in 0 .. 3 THEN SortedStable(data, column, order) ELSE data

\* Lines 266-268: populate_table sets the table's row count from the list.
PopulateTable(data) ==
    Len(data)

\* A variant that compares with the paths of the list only, not with the
\* paths met earlier in the selection.
RECURSIVE NewFilesData_ListOnly(_, _, _, _)
NewFilesData_ListOnly(files, k, existing_paths, bad) ==
    IF k > Len(files) THEN << >>
    ELSE IF files[k] \in existing_paths
    THEN NewFilesData_ListOnly(files, k + 1, existing_paths, bad)
    ELSE IF files[k] = bad
    THEN NewFilesData_ListOnly(files, k + 1, existing_paths, bad)
    ELSE << FileAt(files[k]) >>
         \o NewFilesData_ListOnly(files, k + 1, existing_paths, bad)

\* Lines 181-224: the tuples collected for the selection files[k ..]; a
\* path already in the list or met earlier in the selection is skipped, and
\* so is the file for which os.stat raises (bad).
RECURSIVE NewFilesData(_, _, _, _)
NewFilesData(files, k, existing_paths, bad) ==
    IF k > Len(files) THEN << >>
    ELSE IF files[k] \in existing_paths
    THEN NewFilesData(files, k + 1, existing_paths, bad)
    ELSE IF files[k] = bad
    THEN NewFilesData(files, k + 1, existing_paths, bad)
    ELSE << FileAt(files[k]) >>
         \o NewFilesData(files, k + 1, existing_paths \cup { files[k] }, bad)

\* Lines 167-255: add_pdfs.  The new tuples are appended, and the list is
\* sorted again when a sort is active.  bad: the file of the selection for
\* which os.stat raises, 0 for none.
AddPdfs ==
    /\ \E n \in 0 .. MaxSelect : \E files \in [1 .. n -> 1 .. MaxFiles] :
       \E bad \in { 0 } \cup { files[k] : k \in 1 .. n } :
        LET existing_paths ==
                { pdf_files_data[i].path : i \in 1 .. Len(pdf_files_data) }
            new_files_data == NewFilesData(files, 1, existing_paths, bad)
            extended == pdf_files_data \o new_files_data
            sorted == IF sort_column # 0 - 1
                      THEN SortData(extended, sort_column, sort_order)
                      ELSE extended
            added == new_files_data # << >>
            \* how many files of the selection were skipped for being in
            \* the list, and for being in the selection a second time
            in_list == Cardinality({ k \in 1 .. n : files[k] \in existing_paths })
            in_selection ==
                Cardinality({ k \in 1 .. n :
                                /\ files[k] \notin existing_paths
                                /\ files[k] # bad
                                /\ \E j \in 1 .. (k - 1) : files[j] = files[k] })
        IN  /\ Len(extended) <= MaxFiles
            /\ pdf_files_data' = IF added THEN sorted ELSE pdf_files_data
            /\ table_rows' = IF added THEN PopulateTable(sorted) ELSE table_rows
            /\ last_op' = [NoOp EXCEPT !.op = "add_pdfs", !.accepted = added,
                                       !.in_list = in_list,
                                       !.in_selection = in_selection]
    /\ UNCHANGED << sort_column, sort_order >>
    /\ UNCHANGED mergeVars

\* Lines 366-380: the list without the rows of the selection that exist.
RemoveRows(data, rows) ==
    LET kept == SelectSeq([i \in 1 .. Len(data) |-> i],
                          LAMBDA i : (i - 1) \notin rows)
    IN  [j \in 1 .. Len(kept) |-> data[kept[j]]]

\* Lines 357-388: remove_selected_pdfs, for the rows selected in the table.
RemoveSelectedPdfs ==
    /\ \E rows \in SUBSET (0 .. (table_rows - 1)) :
        LET removed == rows # { }
            remaining == RemoveRows(pdf_files_data, rows)
        IN  /\ pdf_files_data' = IF removed THEN remaining ELSE pdf_files_data
            /\ table_rows' = IF removed THEN PopulateTable(remaining) ELSE table_rows
            /\ last_op' = [NoOp EXCEPT !.op = "remove_selected_pdfs",
                                       !.accepted = removed]
    /\ UNCHANGED << sort_column, sort_order >>
    /\ UNCHANGED mergeVars

\* Line 401: the indices of the signal are accepted.
SignalValid(start, end, row, row_count) ==
    ~(start < 0 \/ end < start \/ end >= row_count \/ row < 0 - 1)

\* Lines 424-426: the index in the list before which the rows go.
TargetRowInData(row, current_data_len) ==
    IF row = 0 - 1 \/ row >= current_data_len THEN current_data_len ELSE row

\* Lines 446-451: the index in the list without the moved rows, clamped.
InsertIndexInTemp(start, count, target_row_in_data, temp_len) ==
    LET raw == IF start < target_row_in_data
               THEN target_row_in_data - count
               ELSE target_row_in_data
        low == IF raw < temp_len THEN raw ELSE temp_len
    IN  IF low < 0 THEN 0 ELSE low

\* Lines 433-458: the list after rows start..end (0-based) were moved.
MoveRows(data, start, end, row) ==
    LET count == end - start + 1
        moved_items == SubSeq(data, start + 1, end + 1)
        temp_list == SubSeq(data, 1, start) \o SubSeq(data, end + 2, Len(data))
        at == InsertIndexInTemp(start, count, TargetRowInData(row, Len(data)),
                                Len(temp_list))
    IN  SubSeq(temp_list, 1, at) \o moved_items
        \o SubSeq(temp_list, at + 1, Len(temp_list))

\* Lines 390-473: on_rows_moved.  foreign: the signal names a parent or a
\* destination index and is ignored whatever its rows are.  An accepted
\* move also resets the sort.
OnRowsMoved ==
    /\ \E foreign \in BOOLEAN :
       \E start \in (0 - 1) .. (IF foreign THEN 0 - 1 ELSE table_rows) :
       \E end \in (0 - 1) .. (IF foreign THEN 0 - 1 ELSE table_rows) :
       \E row \in (0 - 2) .. (IF foreign THEN 0 - 2 ELSE table_rows + 1) :
        LET valid == ~foreign /\ SignalValid(start, end, row, table_rows)
            moves == valid /\ end < Len(pdf_files_data)
            after == MoveRows(pdf_files_data, start, end, row)
        IN  /\ pdf_files_data' = IF moves THEN after ELSE pdf_files_data
            /\ sort_column' = IF moves THEN 0 - 1 ELSE sort_column
            /\ sort_order' = IF moves THEN AscendingOrder ELSE sort_order
            /\ table_rows' = IF valid THEN PopulateTable(pdf_files_data')
                             ELSE table_rows
            /\ last_op' = IF moves
                          THEN [op |-> "on_rows_moved", accepted |-> TRUE,
                                before |-> pdf_files_data,
                                start |-> start, end |-> end, row |-> row,
                                in_list |-> 0, in_selection |-> 0]
                          ELSE [NoOp EXCEPT !.op = "on_rows_moved"]
    /\ UNCHANGED mergeVars

\* Lines 547-577: handle_header_click.  A click on the sorted column turns
\* the order around; another column starts ascending.
HandleHeaderClick ==
    /\ \E logical_index \in (0 - 1) .. ColumnCount :
        LET valid == ~(logical_index < 0 \/ logical_index >= ColumnCount)
            new_order == IF sort_column = logical_index
                         THEN (IF sort_order = AscendingOrder
                               THEN DescendingOrder ELSE AscendingOrder)
                         ELSE AscendingOrder
            sorted == SortData(pdf_files_data, logical_index, new_order)
        IN  /\ sort_column' = IF valid THEN logical_index ELSE sort_column
            /\ sort_order' = IF valid THEN new_order ELSE sort_order
            /\ pdf_files_data' = IF valid THEN sorted ELSE pdf_files_data
            /\ table_rows' = IF valid THEN PopulateTable(sorted) ELSE table_rows
            /\ last_op' = [NoOp EXCEPT !.op = "handle_header_click",
                                       !.accepted = valid]
    /\ UNCHANGED mergeVars

\* Lines 84-85 and 164: the window as constructed: an empty list, no sort.
ListInit ==
    /\ pdf_files_data = << >>
    /\ MergeIdle
    /\ sort_column = 0 - 1
    /\ sort_order = AscendingOrder
    /\ table_rows = 0
    /\ last_op = NoOp

ListNext ==
    \/ AddPdfs
    \/ RemoveSelectedPdfs
    \/ OnRowsMoved
    \/ HandleHeaderClick

SpecList == ListInit /\ [][ListNext]_vars

\* ===================================================== properties checked
\* Helpers of the properties (not part of the program).

\* The page count of the merged document.
TotalPages == Len(merger_pages)

\* The files of the list whose pass reached the bookmark step: the file
\* opened and reported at least one page.
Reached(j) == log[j].env.opens /\ log[j].env.num_pages >= 1

\* The positions in merger_outline of the items added for file j.
EntriesOf(j) == log[j].first .. log[j].last

\* The synthetic per-file items of file j, and the items copied from its outline.
WrappersOf(j) == { e \in EntriesOf(j) : merger_outline[e].node = << >> }
CopiedOf(j) == { e \in EntriesOf(j) : merger_outline[e].node # << >> }

\* The level of item e of an outline: 1 at the top, one more than its parent's.
RECURSIVE Level(_, _)
Level(out, e) ==
    IF out[e].parent = 0 THEN 1 ELSE 1 + Level(out, out[e].parent)

\* The nodes of a forest, each without its children.
RECURSIVE NodesOf(_)
NodesOf(forest) ==
    IF forest = << >> THEN { }
    ELSE { [id |-> Head(forest).id, title |-> Head(forest).title,
            dest |-> Head(forest).dest] }
         \cup NodesOf(Head(forest).children) \cup NodesOf(Tail(forest))

\* The sum of the page counts of the files of l that were appended.
RECURSIVE PagesMerged(_)
PagesMerged(l) ==
    IF l = << >> THEN 0
    ELSE (IF Head(l).merged THEN Head(l).env.num_pages ELSE 0) + PagesMerged(Tail(l))

\* The sum of the page counts of all the files of l.
RECURSIVE PagesOfAll(_)
PagesOfAll(l) ==
    IF l = << >> THEN 0 ELSE Head(l).env.num_pages + PagesOfAll(Tail(l))

\* The source has a node that resolves to its page 0.
HasFirstPageBookmark(j) ==
    \E n \in NodesOf(log[j].env.forest) : n.dest = PageRes(0)

\* The file names of the list without their extension.
ExpectedTitles ==
    << << "a", ".", "b" >>, << ".", "c" >>, << "d" >>, << "D" >> >>

ExpectedTitle(j) == ExpectedTitles[((j - 1) % Len(ExpectedTitles)) + 1]

\* C1: when the merge is done, every item of the merged outline (per-file
\* items and copied items) points at a page d with 0 <= d < TotalPages.
C1_DestinationsInRange ==
    pc = "done" =>
        \A e \in 1 .. Len(merger_outline) :
            0 <= merger_outline[e].page /\ merger_outline[e].page < TotalPages

\* C2: when the loop starts on file j, the page offset is the sum of the
\* page counts of the files before j that were appended; skipped and failed
\* files count 0.
C2_OffsetIsSumOfMerged ==
    /\ \A j \in 1 .. Len(log) : log[j].offset = PagesMerged(SubSeq(log, 1, j - 1))
    /\ pc = "loop" => current_page_offset = PagesMerged(log)

\* A file with pages failed, and the next file was merged at the offset
\* that leaves the failed file's pages out, after a merged first file in
\* another run.
C2_Witness ==
    /\ Len(log) = 2
    /\ Reached(1) /\ ~log[1].merged /\ log[1].env.num_pages = 2
    /\ log[2].merged /\ log[2].offset = 0
    /\ current_page_offset = log[2].env.num_pages

\* C3: when all the files opened, had a page and were appended, the merged
\* document has as many pages as the files together.
C3_TotalPagesIsSum ==
    (pc = "done" /\ \A j \in 1 .. Len(log) : log[j].merged) =>
        TotalPages = PagesOfAll(log)

C3_Witness ==
    /\ pc = "done"
    /\ Len(log) = 2
    /\ log[1].merged /\ log[2].merged
    /\ log[1].env.num_pages = 1 /\ log[2].env.num_pages = 2
    /\ TotalPages = 3

\* C4: a file with at least one page whose outline has no node resolving to
\* its page 0 (or no outline) gets exactly one per-file item: at the top
\* level, titled with the file name without extension, pointing at the page
\* offset the file started at, and placed before all the items copied from
\* the file's outline.
C4_OneWrapperWithoutFirstPageBookmark ==
    \A j \in 1 .. Len(log) :
        (Reached(j) /\ ~HasFirstPageBookmark(j)) =>
            /\ WrappersOf(j) = { log[j].first }
            /\ merger_outline[log[j].first].parent = 0
            /\ merger_outline[log[j].first].title = ExpectedTitle(j)
            /\ merger_outline[log[j].first].page = log[j].offset
            /\ merger_outline[log[j].first].src = j
            /\ \A e \in 1 .. Len(merger_outline) :
                   merger_outline[e].src = j => e \in EntriesOf(j)

\* The second file starts at offset 2, has an outline without a first-page
\* node, and items were copied from it after its per-file item.
C4_Witness ==
    /\ Len(log) = 2
    /\ log[2].offset = 2
    /\ Reached(2) /\ ~HasFirstPageBookmark(2)
    /\ CopiedOf(2) # { }
    /\ merger_outline[log[2].first].node = << >>

\* The node of a forest with the given id.
NodeById(forest, id) == CHOOSE n \in NodesOf(forest) : n.id = id

\* p is a proper prefix of q: the node p is a proper ancestor of the node q.
IsAncestor(p, q) ==
    Len(p) < Len(q) /\ SubSeq(q, 1, Len(p)) = p

\* The node p comes before the node q in the outline: parents before their
\* children, siblings in their order.
ComesBefore(p, q) ==
    \/ IsAncestor(p, q)
    \/ \E i \in 1 .. Len(p) :
           /\ i <= Len(q)
           /\ SubSeq(p, 1, i - 1) = SubSeq(q, 1, i - 1)
           /\ p[i] < q[i]

\* The code copies the node when it gets to it: no exception, a title, a page.
Valid(n) == n.dest.k # "raise" /\ HasTitleAndPage(n.title, n.dest)

\* The node has a title and resolves to a page of its file.
Sound(n) ==
    /\ n.title # None
    /\ \E c \in 1 .. Len(n.title) : n.title[c] # " "
    /\ n.dest.k = "page" /\ n.dest.n >= 0

\* Every node of the file's outline has a title and resolves to a page.
AllSound(j) == \A n \in NodesOf(log[j].env.forest) : Sound(n)

C6_LevelIsSourceLevelPlusOne ==
    \A j \in 1 .. Len(log) :
        (log[j].merged /\ AllSound(j)) =>
            \A e \in CopiedOf(j) :
                Level(merger_outline, e) = Len(merger_outline[e].node) + 1

\* C7: the outline of a file yields the same items (titles, pages, parents,
\* order) whether it is given as nested lists or with the children
\* relation: what was added for the file is what either shape gives.
\* Stated for the files that were merged and whose nodes are all valid.
C7_EncodingsAgree ==
    \A j \in 1 .. Len(log) :
        (log[j].merged /\ AllSound(j) /\ ~log[j].env.outline_raises) =>
            LET base == SubSeq(merger_outline, 1, log[j].first)
                added == SubSeq(merger_outline, 1, log[j].last)
                run(items) == AddBookmarksRecursively(
                                  base, Len(base), items, 1, log[j].offset, j)
            IN  /\ added = run(log[j].env.forest)
                /\ added = run(NestedLists(log[j].env.forest))

\* C8: when a node is dropped (no title, no page, or an exception), none of
\* its descendants is added to the merged outline, in either shape.
\* Stated for the files that were merged and in whose outline every node
\* that is not dropped has a title and resolves to a page.
C8_DroppedNodeDropsDescendants ==
    \A j \in 1 .. Len(log) :
        (/\ log[j].merged
         /\ \A n \in NodesOf(log[j].env.forest) : Valid(n) => Sound(n)) =>
            \A n \in NodesOf(log[j].env.forest) :
                ~Valid(n) =>
                    ~\E e \in CopiedOf(j) : IsAncestor(n.id, merger_outline[e].node)

\* C9: a dropped node, or an exception at a node, does not keep the rest of
\* the outline from being processed: every node that has a title and a page
\* and whose ancestors all have, is in the merged outline exactly once,
\* whatever happened to the nodes before it.
C9_SkipsDoNotStopTheRest ==
    \A j \in 1 .. Len(log) :
        (Reached(j) /\ ~log[j].env.outline_raises) =>
            \A n \in NodesOf(log[j].env.forest) :
                (/\ Sound(n)
                 /\ \A m \in NodesOf(log[j].env.forest) :
                        IsAncestor(m.id, n.id) => Sound(m))
                => Cardinality({ e \in CopiedOf(j) : merger_outline[e].node = n.id }) = 1

\* An exception at the first root, and the second and the third root were
\* copied all the same.
C9_Witness ==
    \E j \in 1 .. Len(log) :
        /\ Reached(j)
        /\ Len(log[j].env.forest) = 3
        /\ log[j].env.forest[1].dest = RaiseRes
        /\ Sound(NodeById(log[j].env.forest, << 2 >>))
        /\ Sound(NodeById(log[j].env.forest, << 3 >>))
        /\ \E e \in CopiedOf(j) : merger_outline[e].node = << 2 >>
        /\ \E e \in CopiedOf(j) : merger_outline[e].node = << 3 >>

\* C10: the merged outline keeps the order: the items of an earlier file
\* come before those of a later file, and the items of one file are in the
\* order of its outline, the per-file item first, each node before its
\* children, siblings in their order.
C10_OrderKept ==
    \A a, b \in 1 .. Len(merger_outline) :
        a < b =>
            \/ merger_outline[a].src < merger_outline[b].src
            \/ /\ merger_outline[a].src = merger_outline[b].src
               /\ ComesBefore(merger_outline[a].node, merger_outline[b].node)

\* The first file has a root with a child and a second root, all copied in
\* that order after its per-file item, and the second file's item follows.
C10_Witness ==
    /\ Len(log) = 2
    /\ Len(merger_outline) = 5
    /\ merger_outline[1].node = << >> /\ merger_outline[1].src = 1
    /\ merger_outline[2].node = << 1 >>
    /\ merger_outline[3].node = << 1, 1 >>
    /\ merger_outline[4].node = << 2 >>
    /\ merger_outline[5].src = 2

\* The page offset after the pass for file j.
OffsetAfter(j) ==
    IF j < Len(log) THEN log[j + 1].offset ELSE current_page_offset

\* The pages of the merged document that come from file j.
PagesFrom(j) == { p \in 1 .. Len(merger_pages) : merger_pages[p][1] = j }

\* The items of the merged outline made for file j.
ItemsFor(j) == { e \in 1 .. Len(merger_outline) : merger_outline[e].src = j }

\* error_files has the record `why` for file j.
Recorded(j, why) ==
    \E r \in 1 .. Len(error_files) :
        error_files[r] = << pdf_files_data[j].name, why >>

\* C11: a file that fails on the file itself (the reader does not open it
\* or cannot count its pages, or merger.append raises) is recorded as
\* failed, adds no page and no outline item at all, not even its per-file
\* item, and leaves the page offset as it was.
C11_FailedFileContributesNothing ==
    \A j \in 1 .. Len(log) :
        (~log[j].env.opens \/ (Reached(j) /\ ~log[j].env.append_ok)) =>
            /\ Recorded(j, "error")
            /\ PagesFrom(j) = { }
            /\ OffsetAfter(j) = log[j].offset
            /\ ItemsFor(j) = { }

\* C12: a file that opens with zero pages is skipped: it is recorded with
\* "no pages", gets no outline item, leaves the page offset as it was, and
\* the loop goes on to the next file of the list.
C12_NoPagesSkipped ==
    \A j \in 1 .. Len(log) :
        (log[j].env.opens /\ log[j].env.num_pages = 0) =>
            /\ Recorded(j, "no pages")
            /\ ~log[j].merged
            /\ ItemsFor(j) = { }
            /\ PagesFrom(j) = { }
            /\ OffsetAfter(j) = log[j].offset
            /\ (pc = "loop" /\ j = Len(log)) => pos = j + 1
            /\ (pc = "done" /\ j < Len(pdf_files_data)) => j < Len(log)

\* The first file has no pages; the second was processed and merged at
\* offset 0 and only it has items in the outline.
C12_Witness ==
    /\ pc = "done"
    /\ Len(log) = 2
    /\ log[1].env.opens /\ log[1].env.num_pages = 0
    /\ log[2].merged /\ log[2].offset = 0
    /\ ItemsFor(2) # { } /\ ItemsFor(1) = { }
    /\ error_files = << << pdf_files_data[1].name, "no pages" >> >>

\* The outline of file j could not be read or processed: reader.outline
\* raised, or the resolver raised at one of its nodes.
OutlineFailed(j) ==
    \/ log[j].env.outline_raises
    \/ \E n \in NodesOf(log[j].env.forest) : n.dest = RaiseRes

\* C13: when reading or processing the outline of a file fails and the
\* append goes through, the file's pages are in the merged document, the
\* page offset advances by its page count, the file counts as merged (no
\* error record, counted in success_count), and the loop goes on.
C13_OutlineFailureKeepsPages ==
    \A j \in 1 .. Len(log) :
        (Reached(j) /\ log[j].env.append_ok /\ OutlineFailed(j)) =>
            /\ Cardinality(PagesFrom(j)) = log[j].env.num_pages
            /\ OffsetAfter(j) = log[j].offset + log[j].env.num_pages
            /\ ~Recorded(j, "error") /\ ~Recorded(j, "no pages")
            /\ success_count + Len(error_files) = Len(log)
            /\ (pc = "loop" /\ j = Len(log)) => pos = j + 1
            /\ (pc = "done" /\ j < Len(pdf_files_data)) => j < Len(log)

\* reader.outline raised for the first file, whose 2 pages were appended;
\* the second file was merged at offset 2.
C13_Witness ==
    /\ Len(log) = 2
    /\ log[1].env.outline_raises /\ log[1].env.num_pages = 2
    /\ Cardinality(PagesFrom(1)) = 2
    /\ log[2].merged /\ log[2].offset = 2
    /\ success_count = 2

\* C14: a node whose destination does not resolve to a page of its file
\* (the resolver answers with its not-found marker) is dropped: the merged
\* outline has no item for it, whatever the page.  Stated for the files
\* that were merged.
C14_UnresolvedNodeDropped ==
    \A j \in 1 .. Len(log) :
        log[j].merged =>
            \A n \in NodesOf(log[j].env.forest) :
                n.dest = NotFound =>
                    ~\E e \in CopiedOf(j) : merger_outline[e].node = n.id

\* The title is empty or consists of blanks only.
IsBlankTitle(title) ==
    \A c \in 1 .. Len(title) : title[c] = " "

\* C15: no item copied from the outline of a merged file has an empty or
\* blank title.
C15_NoBlankTitleEmitted ==
    \A j \in 1 .. Len(log) :
        log[j].merged =>
            \A e \in CopiedOf(j) : ~IsBlankTitle(merger_outline[e].title)

\* C16: when the final write fails, the operation is reported as failed and
\* the file at the output path is not left partially written.
C16_WriteFailureLeavesNoPartialFile ==
    (pc = "done" /\ success_count > 0 /\ status # "merged") =>
        /\ status = "critical_error"
        /\ output_file # "partial"

RecordedAny(j) == Recorded(j, "error") \/ Recorded(j, "no pages")

\* C18: when the loop has ended, every file of the list was processed and
\* has exactly one outcome: counted in success_count or recorded in
\* error_files, never both, never neither.
C18_OneOutcomePerFile ==
    ((pc = "loop" /\ pos > Len(pdf_files_data)) \/ pc = "done") =>
        /\ Len(log) = Len(pdf_files_data)
        /\ success_count + Len(error_files) = Len(pdf_files_data)
        /\ success_count = Cardinality({ j \in 1 .. Len(log) : log[j].merged })
        /\ Len(error_files) = Cardinality({ j \in 1 .. Len(log) : RecordedAny(j) })
        /\ \A j \in 1 .. Len(log) : log[j].merged <=> ~RecordedAny(j)

\* The loop ended with the first file skipped for having no pages and the
\* second merged.
C18_Witness ==
    /\ pc = "loop" /\ pos > Len(pdf_files_data)
    /\ Len(log) = 2
    /\ log[1].env.opens /\ log[1].env.num_pages = 0
    /\ log[2].merged
    /\ success_count = 1 /\ Len(error_files) = 1

\* The positions of the items of an outline that lie under `parent`.
Kids(out, parent) ==
    SelectSeq([e \in 1 .. Len(out) |-> e], LAMBDA e : out[e].parent = parent)

\* A merger outline read back as a forest of resolved nodes (the children
\* relation); the id of a node is its position in the outline.
RECURSIVE AsForest(_, _)
AsForest(out, parent) ==
    LET ks == Kids(out, parent)
    IN  [i \in 1 .. Len(ks) |->
            NodeItem(<< ks[i] >>,
                     [title |-> out[ks[i]].title, dest |-> PageRes(out[ks[i]].page)],
                     TRUE, AsForest(out, ks[i]))]

\* The entries of an outline: title, destination page and level, in order.
Listing(out) ==
    [e \in 1 .. Len(out) |->
        [title |-> out[e].title, page |-> out[e].page, level |-> Level(out, e)]]

\* Every entry has a non-blank title and a page of the document.
ValidOutline(out, numPages) ==
    \A e \in 1 .. Len(out) :
        /\ out[e].title # None /\ ~IsBlankTitle(out[e].title)
        /\ 0 <= out[e].page /\ out[e].page < numPages

\* _add_bookmarks_recursively applied at the top level (no parent) with
\* page offset 0.
Rerun(outline_items) ==
    AddBookmarksRecursively(<< >>, 0, outline_items, 1, 0, 0)

\* The files were all merged and their outlines had valid nodes only, so
\* the merged outline is an adjusted, valid outline.
AdjustedAndValid ==
    /\ pc = "done"
    /\ \A j \in 1 .. Len(log) : log[j].merged /\ AllSound(j)
    /\ ValidOutline(merger_outline, TotalPages)

\* The part that holds: the merged outline handed over with its nesting in
\* children attributes comes back as it is.
RerunKeepsChildrenShape ==
    AdjustedAndValid =>
        Listing(Rerun(AsForest(merger_outline, 0))) = Listing(merger_outline)

\* C19: the merged outline of a finished merge, when valid, is returned as
\* it is by the copying step applied with page offset 0 at the top level:
\* same titles, levels, pages and order, in whichever of the two shapes
\* the outline is handed over.
C19_RerunReturnsSameList ==
    AdjustedAndValid =>
        \A shape \in { AsForest(merger_outline, 0),
                       NestedLists(AsForest(merger_outline, 0)) } :
            Listing(Rerun(shape)) = Listing(merger_outline)

\* What the list has to be after rows start..end of `before` were moved in
\* front of index row: the entries outside the block that were before row,
\* the block, the entries outside the block that were at or after row.
MovedAsAsked(before, start, end, row, after) ==
    LET n == Len(before)
        target == IF row = 0 - 1 \/ row >= n THEN n ELSE row
        block == SubSeq(before, start + 1, end + 1)
        rest == SubSeq(before, 1, start) \o SubSeq(before, end + 2, n)
        ahead == Cardinality({ i \in 0 .. (n - 1) :
                                  (i < start \/ i > end) /\ i < target })
    IN  /\ Len(after) = n
        /\ \A i \in 1 .. n :
               Cardinality({ k \in 1 .. n : after[k] = before[i] })
                   = Cardinality({ k \in 1 .. n : before[k] = before[i] })
        /\ after = SubSeq(rest, 1, ahead) \o block
                   \o SubSeq(rest, ahead + 1, Len(rest))

\* The part that holds: a move to a row outside the block (row <= start or
\* row > end, the moves of Qt's own row-move protocol among them).
MoveToOutsideOfBlock ==
    (/\ last_op.op = "on_rows_moved" /\ last_op.accepted
     /\ (last_op.row <= last_op.start \/ last_op.row > last_op.end)) =>
        MovedAsAsked(last_op.before, last_op.start, last_op.end, last_op.row,
                     pdf_files_data)

\* C20: after a rows-moved signal that passed the validation, the list is
\* a permutation of what it was: same length and entries, the moved block
\* contiguous in its order, the other entries that were before index row
\* in front of it and those at or after row behind it (row = -1 or
\* row >= len: the end), in their order.
C20_MoveIsThePermutationAsked ==
    (last_op.op = "on_rows_moved" /\ last_op.accepted) =>
        MovedAsAsked(last_op.before, last_op.start, last_op.end, last_op.row,
                     pdf_files_data)

\* The list is ordered by the key of the column: ascending, no entry has a
\* smaller key than one before it; descending, none has a larger key.
OrderedBy(data, column, order) ==
    \A i \in 1 .. Len(data) : \A j \in (i + 1) .. Len(data) :
        IF order = DescendingOrder
        THEN ~KeyLess(data[i], data[j], column)
        ELSE ~KeyLess(data[j], data[i], column)

\* C21: whenever a sort is active the list is ordered by the key of the
\* sort column in the active direction, whatever the handlers did; an
\* accepted drag move leaves no sort active, a click on the sorted column
\* turns the direction around and a click on another column starts
\* ascending.
C21_SortedWhileSortActive ==
    /\ [](sort_column # 0 - 1 =>
              /\ sort_column \in 0 .. (ColumnCount - 1)
              /\ OrderedBy(pdf_files_data, sort_column, sort_order))
    /\ [][/\ (last_op'.op = "on_rows_moved" /\ last_op'.accepted) =>
                 (sort_column' = 0 - 1 /\ sort_order' = AscendingOrder)
          /\ (last_op'.op = "handle_header_click" /\ last_op'.accepted) =>
                 (IF sort_column' = sort_column
                  THEN sort_order' # sort_order
                  ELSE sort_order' = AscendingOrder)
          /\ (last_op'.op \in { "add_pdfs", "remove_selected_pdfs" }) =>
                 (sort_column' = sort_column /\ sort_order' = sort_order)]_vars

\* Files were added while the list was sorted by name, descending, and the
\* list of three, with the names d and D in it, is in that order.
C21_Witness ==
    /\ sort_column = 0
    /\ sort_order = DescendingOrder
    /\ last_op.op = "add_pdfs" /\ last_op.accepted
    /\ Len(pdf_files_data) >= 3
    /\ \E i, j \in 1 .. Len(pdf_files_data) :
           pdf_files_data[i].path = 3 /\ pdf_files_data[j].path = 4
    /\ \E i \in 1 .. (Len(pdf_files_data) - 1) :
           KeyLess(pdf_files_data[i + 1], pdf_files_data[i], 0)

\* C22: no two entries of the list have the same full path, whatever the
\* handlers did.
C22_NoDuplicatePaths ==
    \A i \in 1 .. Len(pdf_files_data) : \A j \in (i + 1) .. Len(pdf_files_data) :
        pdf_files_data[i].path # pdf_files_data[j].path

\* add_pdfs was given a selection of which one file was in the list and
\* another was there twice: the list grew by one entry.
C22_Witness ==
    /\ last_op.op = "add_pdfs" /\ last_op.accepted
    /\ last_op.in_list = 1
    /\ last_op.in_selection = 1
    /\ Len(pdf_files_data) = 3

====
